---- MODULE Spec2Model ----
(***************************************************************************)
(* Model of src/src/inline_markdown.py: the markdown -> HTML node pipeline  *)
(* (block segmentation, block classification, inline tokenization and      *)
(* block assembly).                                                        *)
(*                                                                         *)
(* A Python str is a sequence of characters, each a one-character string.  *)
(* A Python call that can raise returns a result record: Ok(v) or          *)
(* Raise(message).                                                         *)
(***************************************************************************)
EXTENDS Integers, Sequences, FiniteSets, TLC

VARIABLES
    markdown,    \* markdown_to_html_node: the document given
    blocks,      \* markdown_to_html_node: the blocks of the document
    children,    \* markdown_to_html_node: the block subtrees built so far
    root,        \* markdown_to_html_node: the node returned
    pc,          \* position of the running call
    err,         \* message of the ValueError the call ended in, or NoError
    text,        \* text_to_textnodes / split_nodes_link: the text given
    nodes,       \* text_to_textnodes: the span list between passes
    block,       \* block_to_block_type: the block given
    block_type   \* block_to_block_type: the type returned

vars == <<markdown, blocks, children, root, pc, err, text, nodes, block, block_type>>

-----------------------------------------------------------------------------
(* Bounds of the explored inputs *)

MaxBlockTokens == 4

MaxInlineTokens == 5

MaxClassifyTokens == 4

MaxLinkTokens == 4

-----------------------------------------------------------------------------
(* Python values *)

None == <<"None">>

NoError == ""

Ok(v) == [ok |-> TRUE, val |-> v, err |-> NoError]

Raise(msg) == [ok |-> FALSE, val |-> <<>>, err |-> msg]

ERR_DELIMITER == "invalid markdown, formatted section not closed"

ERR_IMAGE == "invalid markdown, image section not closed"

ERR_LINK == "invalid markdown, link section not closed"

\* f"Invalid heading level: {level}"
ERR_HEADING(level) == "Invalid heading level: " \o ToString(level)

ERR_CODE == "Invalid code block"

ERR_QUOTE == "Invalid quote line"

ERR_INDEX == "list index out of range"

\* The grave accent character (U+0060).  A TLA+ string literal cannot hold it,
\* so this one character is written by name.
BACKTICK == "backtick"

\* The vertical tab (U+000B), written as the character itself
VT == ""

\* str.strip() and str.lstrip() with no argument remove the characters for which
\* str.isspace() holds.  Second line: the characters U+001C, U+001D, U+001E,
\* U+001F, U+0085 and U+00A0, each written as the character itself.  A TLA+
\* string literal cannot hold a character above U+00FF, so each of the remaining
\* ones (U+1680, U+2000 to U+200A, U+2028, U+2029, U+202F, U+205F, U+3000) is the
\* one character written by its code point.
WHITESPACE ==
    { " ", "\t", "\n", "\r", "\f", VT,
      "", "", "", "", "", " ",
      "U+1680", "U+2000", "U+2001", "U+2002", "U+2003", "U+2004",
      "U+2005", "U+2006", "U+2007", "U+2008", "U+2009", "U+200A",
      "U+2028", "U+2029", "U+202F", "U+205F", "U+3000" }

-----------------------------------------------------------------------------
(* Python str operations, as the source uses them *)

\* s[lo:hi] with Python's treatment of negative and out-of-range indices
slice_index(i, n) ==
    IF i < 0 THEN (IF i + n < 0 THEN 0 ELSE i + n)
    ELSE (IF i > n THEN n ELSE i)

py_slice(s, lo, hi) == SubSeq(s, slice_index(lo, Len(s)) + 1, slice_index(hi, Len(s)))

startswith(s, prefix) ==
    /\ Len(prefix) <= Len(s)
    /\ SubSeq(s, 1, Len(prefix)) = prefix

endswith(s, suffix) ==
    /\ Len(suffix) <= Len(s)
    /\ SubSeq(s, Len(s) - Len(suffix) + 1, Len(s)) = suffix

\* the least of a set of positions, 0 when there is none
first_of(hits) == IF hits = {} THEN 0 ELSE CHOOSE p \in hits : \A q \in hits : p <= q

\* 1-based index of the first occurrence of sub in s, 0 when there is none
find(s, sub) ==
    first_of({p \in 1..(Len(s) - Len(sub) + 1) : SubSeq(s, p, p + Len(sub) - 1) = sub})

\* s.split(sep): left-to-right, non-overlapping occurrences of a non-empty sep;
\* split_at cuts at p, the first occurrence (0: none)
RECURSIVE split(_, _)
split_at(s, sep, p) ==
    IF p = 0 THEN <<s>>
    ELSE <<SubSeq(s, 1, p - 1)>> \o split(SubSeq(s, p + Len(sep), Len(s)), sep)

split(s, sep) == split_at(s, sep, find(s, sep))

\* s.split(sep, 1); split_max1_at cuts at p, the first occurrence (0: none)
split_max1_at(s, sep, p) ==
    IF p = 0 THEN <<s>>
    ELSE <<SubSeq(s, 1, p - 1), SubSeq(s, p + Len(sep), Len(s))>>

split_max1(s, sep) == split_max1_at(s, sep, find(s, sep))

\* s.lstrip(chars)
RECURSIVE lstrip_chars(_, _)
lstrip_chars(s, chars) ==
    IF s # <<>> /\ Head(s) \in chars THEN lstrip_chars(Tail(s), chars) ELSE s

RECURSIVE rstrip_chars(_, _)
rstrip_chars(s, chars) ==
    IF s # <<>> /\ s[Len(s)] \in chars
    THEN rstrip_chars(SubSeq(s, 1, Len(s) - 1), chars)
    ELSE s

\* s.lstrip()
lstrip(s) == lstrip_chars(s, WHITESPACE)

\* s.strip()
strip(s) == rstrip_chars(lstrip_chars(s, WHITESPACE), WHITESPACE)

\* sep.join(parts)
RECURSIVE join(_, _)
join(sep, parts) ==
    IF parts = <<>> THEN <<>>
    ELSE IF Len(parts) = 1 THEN parts[1]
    ELSE parts[1] \o sep \o join(sep, Tail(parts))

DIGITS == <<"0", "1", "2", "3", "4", "5", "6", "7", "8", "9">>

\* f"{n}" for an int n >= 0
RECURSIVE str_int(_)
str_int(n) ==
    IF n < 10 THEN <<DIGITS[n + 1]>>
    ELSE str_int(n \div 10) \o <<DIGITS[(n % 10) + 1]>>

-----------------------------------------------------------------------------
(* Block segmentation *)

RECURSIVE filter_blocks(_)
filter_blocks(bs) ==
    IF bs = <<>> THEN <<>>
    ELSE IF Head(bs) = <<>> THEN filter_blocks(Tail(bs))
    ELSE <<strip(Head(bs))>> \o filter_blocks(Tail(bs))

markdown_to_blocks(md) == filter_blocks(split(md, <<"\n", "\n">>))

-----------------------------------------------------------------------------
(* Block classification *)

PARAGRAPH == "paragraph"

HEADING == "heading"

CODE == "code"

QUOTE == "quote"

UNORDERED_LIST == "unordered_list"

ORDERED_LIST == "ordered_list"

BlockType == {PARAGRAPH, HEADING, CODE, QUOTE, UNORDERED_LIST, ORDERED_LIST}

\* three grave accents
FENCE == <<BACKTICK, BACKTICK, BACKTICK>>

\* heading_match, with the count of "#" not limited to 6
heading_match_unlimited(b) ==
    \E k \in 1..Len(b) :
        /\ Len(b) > k
        /\ \A j \in 1..k : b[j] = "#"
        /\ b[k + 1] = " "

\* re.match(r"^#{1,6} ", b)
heading_match(b) ==
    \E k \in 1..6 :
        /\ Len(b) > k
        /\ \A j \in 1..k : b[j] = "#"
        /\ b[k + 1] = " "

\* ordered_list_pattern, accepting any one-digit number on every line
ordered_list_pattern_any_number(lines) ==
    \A i \in 1..Len(lines) :
        \E n \in 1..9 : startswith(lines[i], str_int(n) \o <<".", " ">>)

\* the loop of lines 48-53: the flag left by the first line that breaks the numbering
ordered_list_pattern(lines) ==
    \A i \in 1..Len(lines) : startswith(lines[i], str_int(i) \o <<".", " ">>)

\* lines 40-58, given the lines of the block
line_block_type(lines) ==
    IF \A i \in 1..Len(lines) : startswith(lines[i], <<">">>) THEN QUOTE
    ELSE IF \A i \in 1..Len(lines) : startswith(lines[i], <<"-", " ">>)
         THEN UNORDERED_LIST
    ELSE IF ordered_list_pattern(lines) /\ Len(lines) > 0 THEN ORDERED_LIST
    ELSE PARAGRAPH

block_to_block_type(b) ==
    IF startswith(b, <<"#">>) /\ heading_match(b) THEN HEADING
    ELSE IF startswith(b, FENCE) /\ endswith(b, FENCE) THEN CODE
    ELSE line_block_type(split(b, <<"\n">>))

-----------------------------------------------------------------------------
(* Spans (TextNode) and render nodes (HTMLNode) *)

TT_TEXT == "text"

TT_BOLD == "bold"

TT_ITALIC == "italic"

TT_CODE == "code"

TT_LINK == "link"

TT_IMAGE == "image"

TextNode(t, text_type, url) == [text |-> t, text_type |-> text_type, url |-> url]

ParentNode(tag, kids) == [tag |-> tag, children |-> kids]

LeafNode(tag, value) == [tag |-> tag, value |-> value]

\* the leaf that renders one span
text_node_to_html_node(text_node) == [span |-> text_node]

\* new_nodes.extend(xs) ahead of what the rest of a loop returns or raises
Extend(xs, rest) == IF rest.ok THEN Ok(xs \o rest.val) ELSE rest

-----------------------------------------------------------------------------
(* Inline tokenizer: delimiter passes *)

\* split_sections, without the test of line 82: empty sections are emitted too
RECURSIVE split_sections_keep_empty(_, _, _)
split_sections_keep_empty(sections, i, text_type) ==
    IF i >= Len(sections) THEN <<>>
    ELSE <<TextNode(sections[i + 1], IF i % 2 = 0 THEN TT_TEXT ELSE text_type, None)>>
             \o split_sections_keep_empty(sections, i + 1, text_type)

\* split_sections, typing a section by its position among the sections emitted
RECURSIVE emitted_sections(_, _, _, _)
emitted_sections(sections, i, n, text_type) ==
    IF i >= Len(sections) THEN <<>>
    ELSE IF sections[i + 1] = <<>> THEN emitted_sections(sections, i + 1, n, text_type)
    ELSE <<TextNode(sections[i + 1], IF n % 2 = 0 THEN TT_TEXT ELSE text_type, None)>>
             \o emitted_sections(sections, i + 1, n + 1, text_type)

split_sections_by_position(sections, i, text_type) ==
    emitted_sections(sections, i, 0, text_type)

\* the loop of lines 81-87 from index i (0-based) on
RECURSIVE split_sections(_, _, _)
split_sections(sections, i, text_type) ==
    IF i >= Len(sections) THEN <<>>
    ELSE IF sections[i + 1] = <<>> THEN split_sections(sections, i + 1, text_type)
    ELSE IF i % 2 = 0
         THEN <<TextNode(sections[i + 1], TT_TEXT, None)>>
                  \o split_sections(sections, i + 1, text_type)
         ELSE <<TextNode(sections[i + 1], text_type, None)>>
                  \o split_sections(sections, i + 1, text_type)

\* split_node_delimiter, without the test of lines 79-80
split_node_delimiter_no_raise(old_node, sections, text_type, rest) ==
    IF old_node.text_type # TT_TEXT THEN Extend(<<old_node>>, rest)
    ELSE Extend(split_sections(sections, 0, text_type), rest)

\* lines 74-88 for one node, given its sections and what the rest of the loop does
split_node_delimiter(old_node, sections, text_type, rest) ==
    IF old_node.text_type # TT_TEXT THEN Extend(<<old_node>>, rest)
    ELSE IF Len(sections) % 2 = 0 THEN Raise(ERR_DELIMITER)
    ELSE Extend(split_sections(sections, 0, text_type), rest)

RECURSIVE split_nodes_delimiter(_, _, _)
split_nodes_delimiter(old_nodes, delimiter, text_type) ==
    IF old_nodes = <<>> THEN Ok(<<>>)
    ELSE split_node_delimiter(Head(old_nodes), split(Head(old_nodes).text, delimiter),
                              text_type,
                              split_nodes_delimiter(Tail(old_nodes), delimiter, text_type))

-----------------------------------------------------------------------------
(* Inline tokenizer: image and link passes *)

\* index of the first character of s at or after position from that is in chars, or 0
first_in(s, from, chars) == first_of({i \in from..Len(s) : s[i] \in chars})

\* \[([^\[\]]*)\]\(([^\(\)]*)\) tried at position p of s, where q is the first
\* bracket after p and r the first parenthesis after q + 1 (0: none): the groups
\* and the position of the closing parenthesis
bracket_groups(s, p, q, r) ==
    IF /\ p <= Len(s) /\ s[p] = "["
       /\ q # 0 /\ s[q] = "]"
       /\ q + 1 <= Len(s) /\ s[q + 1] = "("
       /\ r # 0 /\ s[r] = ")"
    THEN [found |-> TRUE, pair |-> <<SubSeq(s, p + 1, q - 1), SubSeq(s, q + 2, r - 1)>>,
          end |-> r]
    ELSE [found |-> FALSE, pair |-> <<>>, end |-> 0]

bracket_close(s, q) == IF q = 0 THEN 0 ELSE first_in(s, q + 2, {"(", ")"})

bracket_match_from(s, p, q) == bracket_groups(s, p, q, bracket_close(s, q))

bracket_match(s, p) == bracket_match_from(s, p, first_in(s, p + 1, {"[", "]"}))

\* re.findall of the image pattern, scanning s from position p; m is the match
\* of the bracket part tried at p + 1
RECURSIVE findall_images(_, _)
findall_images_at(s, p, m) ==
    IF s[p] = "!" /\ m.found
    THEN <<m.pair>> \o findall_images(s, m.end + 1)
    ELSE findall_images(s, p + 1)

findall_images(s, p) ==
    IF p > Len(s) THEN <<>> ELSE findall_images_at(s, p, bracket_match(s, p + 1))

extract_markdown_images(t) == findall_images(t, 1)

\* re.findall of the link pattern, scanning s from position p; (?<!!) looks at
\* the character before p in the whole of s; m is the match tried at p
RECURSIVE findall_links(_, _)
findall_links_at(s, p, m) ==
    IF (p = 1 \/ s[p - 1] # "!") /\ m.found
    THEN <<m.pair>> \o findall_links(s, m.end + 1)
    ELSE findall_links(s, p + 1)

findall_links(s, p) ==
    IF p > Len(s) THEN <<>> ELSE findall_links_at(s, p, bracket_match(s, p))

extract_markdown_links(t) == findall_links(t, 1)

\* f"![{image[0]}]({image[1]})"
image_literal(image) == <<"!", "[">> \o image[1] \o <<"]", "(">> \o image[2] \o <<")">>

\* f"[{link[0]}]({link[1]})"
link_literal(link) == <<"[">> \o link[1] \o <<"]", "(">> \o link[2] \o <<")">>

\* a Text span of t, unless t is empty
text_if_any(t) == IF t # <<>> THEN <<TextNode(t, TT_TEXT, None)>> ELSE <<>>

\* this.val ahead of what the rest of a loop returns, unless this raised
ExtendWith(this, rest) == IF this.ok THEN Extend(this.val, rest) ELSE this

\* the loop of lines 103-118 over the images still to cut from original_text;
\* cut_image is one iteration, given the sections of line 104
RECURSIVE cut_images(_, _)
cut_image(image, sections, images) ==
    IF Len(sections) # 2 THEN Raise(ERR_IMAGE)
    ELSE Extend(text_if_any(sections[1]) \o <<TextNode(image[1], TT_IMAGE, image[2])>>,
                cut_images(sections[2], Tail(images)))

cut_images(original_text, images) ==
    IF images = <<>> THEN Ok(text_if_any(original_text))
    ELSE cut_image(Head(images), split_max1(original_text, image_literal(Head(images))),
                   images)

\* lines 95-118 for one node, given the images extracted from its text
split_node_image(old_node, images) ==
    IF old_node.text_type # TT_TEXT \/ Len(images) = 0 THEN Ok(<<old_node>>)
    ELSE cut_images(old_node.text, images)

RECURSIVE split_nodes_image(_)
split_nodes_image(old_nodes) ==
    IF old_nodes = <<>> THEN Ok(<<>>)
    ELSE ExtendWith(split_node_image(Head(old_nodes),
                                     extract_markdown_images(Head(old_nodes).text)),
                    split_nodes_image(Tail(old_nodes)))

\* the loop of lines 133-142 over the links still to cut from original_text;
\* cut_link is one iteration, given the sections of line 134
RECURSIVE cut_links(_, _)
cut_link(link, sections, links) ==
    IF Len(sections) # 2 THEN Raise(ERR_LINK)
    ELSE Extend(text_if_any(sections[1]) \o <<TextNode(link[1], TT_LINK, link[2])>>,
                cut_links(sections[2], Tail(links)))

cut_links(original_text, links) ==
    IF links = <<>> THEN Ok(text_if_any(original_text))
    ELSE cut_link(Head(links), split_max1(original_text, link_literal(Head(links))), links)

\* lines 125-142 for one node, given the links extracted from its text
split_node_link(old_node, links) ==
    IF old_node.text_type # TT_TEXT \/ Len(links) = 0 THEN Ok(<<old_node>>)
    ELSE cut_links(old_node.text, links)

RECURSIVE split_nodes_link(_)
split_nodes_link(old_nodes) ==
    IF old_nodes = <<>> THEN Ok(<<>>)
    ELSE ExtendWith(split_node_link(Head(old_nodes),
                                    extract_markdown_links(Head(old_nodes).text)),
                    split_nodes_link(Tail(old_nodes)))

-----------------------------------------------------------------------------
(* Inline tokenizer: the pipeline *)

bold_pass(ns) == split_nodes_delimiter(ns, <<"*", "*">>, TT_BOLD)

italic_pass(ns) == split_nodes_delimiter(ns, <<"_">>, TT_ITALIC)

code_pass(ns) == split_nodes_delimiter(ns, <<BACKTICK>>, TT_CODE)

\* lines 64-67, each given what the line before it returned or raised
then_italic(r) == IF r.ok THEN italic_pass(r.val) ELSE r

then_code(r) == IF r.ok THEN code_pass(r.val) ELSE r

then_image(r) == IF r.ok THEN split_nodes_image(r.val) ELSE r

then_link(r) == IF r.ok THEN split_nodes_link(r.val) ELSE r

text_to_textnodes(t) ==
    then_link(then_image(then_code(then_italic(bold_pass(<<TextNode(t, TT_TEXT, None)>>)))))

\* lines 161-165, given what text_to_textnodes returned or raised
html_children(text_nodes) ==
    IF text_nodes.ok
    THEN Ok([k \in 1..Len(text_nodes.val) |-> text_node_to_html_node(text_nodes.val[k])])
    ELSE text_nodes

text_to_children(t) == html_children(text_to_textnodes(t))

-----------------------------------------------------------------------------
(* Block assembler *)

TAG_DIV == <<"d", "i", "v">>

TAG_P == <<"p">>

TAG_PRE == <<"p", "r", "e">>

TAG_CODE == <<"c", "o", "d", "e">>

TAG_BLOCKQUOTE == <<"b", "l", "o", "c", "k", "q", "u", "o", "t", "e">>

TAG_UL == <<"u", "l">>

TAG_OL == <<"o", "l">>

TAG_LI == <<"l", "i">>

\* ParentNode(tag, children) once text_to_children has returned or raised
Wrap(tag, kids) == IF kids.ok THEN Ok(ParentNode(tag, kids.val)) ELSE kids

paragraph_to_html_node(b) ==
    Wrap(TAG_P, text_to_children(join(<<" ">>, split(b, <<"\n">>))))

\* the loop of lines 203-207: the number of "#" the block starts with
RECURSIVE heading_level(_)
heading_level(b) ==
    IF b # <<>> /\ Head(b) = "#" THEN 1 + heading_level(Tail(b)) ELSE 0

\* lines 209-214, given the level counted
heading_node(b, level) ==
    IF level < 1 \/ level > 6 THEN Raise(ERR_HEADING(level))
    ELSE Wrap(<<"h">> \o str_int(level), text_to_children(py_slice(b, level + 1, Len(b))))

heading_to_html_node(b) == heading_node(b, heading_level(b))

code_to_html_node(b) ==
    IF ~(startswith(b, FENCE) /\ endswith(b, FENCE)) THEN Raise(ERR_CODE)
    ELSE Ok(ParentNode(TAG_PRE, <<LeafNode(TAG_CODE, py_slice(b, 3, -3))>>))

\* line.lstrip(">").lstrip()
quote_line(line) == lstrip(lstrip_chars(line, {">"}))

\* the text quote_to_html_node tokenizes
quote_content(lines) == join(<<"\n">>, [k \in 1..Len(lines) |-> quote_line(lines[k])])

\* lines 230-238, given the lines of the block
quote_node(lines) ==
    IF \E k \in 1..Len(lines) : ~startswith(lines[k], <<">">>) THEN Raise(ERR_QUOTE)
    ELSE Wrap(TAG_BLOCKQUOTE, text_to_children(quote_content(lines)))

quote_to_html_node(b) == quote_node(split(b, <<"\n">>))

\* html_items.append(li) ahead of what the rest of a loop returns, unless li raised
AppendItem(li, rest) == IF li.ok THEN Extend(<<li.val>>, rest) ELSE li

\* the loop of lines 245-248 over the items still to convert
RECURSIVE unordered_items(_)
unordered_items(items) ==
    IF items = <<>> THEN Ok(<<>>)
    ELSE AppendItem(Wrap(TAG_LI, text_to_children(py_slice(Head(items), 2, Len(Head(items))))),
                    unordered_items(Tail(items)))

unordered_list_to_html_node(b) == Wrap(TAG_UL, unordered_items(split(b, <<"\n">>)))

\* the loop of lines 257-260 over the items still to convert
\* lines 258-260, given item.split(". ", 1)
ordered_item(parts) ==
    IF Len(parts) < 2 THEN Raise(ERR_INDEX)
    ELSE Wrap(TAG_LI, text_to_children(parts[2]))

RECURSIVE ordered_items(_)
ordered_items(items) ==
    IF items = <<>> THEN Ok(<<>>)
    ELSE AppendItem(ordered_item(split_max1(Head(items), <<".", " ">>)),
                    ordered_items(Tail(items)))

ordered_list_to_html_node(b) == Wrap(TAG_OL, ordered_items(split(b, <<"\n">>)))

\* lines 176-187: the converter chosen by the type of the block
typed_block_to_html_node(b, bt) ==
    CASE bt = PARAGRAPH -> paragraph_to_html_node(b)
      [] bt = HEADING -> heading_to_html_node(b)
      [] bt = CODE -> code_to_html_node(b)
      [] bt = QUOTE -> quote_to_html_node(b)
      [] bt = UNORDERED_LIST -> unordered_list_to_html_node(b)
      [] bt = ORDERED_LIST -> ordered_list_to_html_node(b)

\* the body of the loop of lines 173-187 for one block
block_to_html_node(b) == typed_block_to_html_node(b, block_to_block_type(b))

-----------------------------------------------------------------------------
(* Inputs *)

RECURSIVE flatten(_)
flatten(ts) == IF ts = <<>> THEN <<>> ELSE Head(ts) \o flatten(Tail(ts))

\* v is a string made of at most n of the given tokens
TokenString(v, tokens, n) ==
    \E k \in 0..n : \E ts \in [1..k -> tokens] : v = flatten(ts)

SIX_HASHES == <<"#", "#", "#", "#", "#", "#">>

BlockTokens ==
    { <<"#">>, <<"#", " ">>, SIX_HASHES, FENCE, <<BACKTICK>>, <<">">>, <<"-", " ">>,
      <<"1", ".", " ">>, <<"2", ".", " ">>, <<"a">>, <<" ">>, <<"\n">>, <<"\n", "\n">>,
      <<"_">>, <<VT>> }

BracketTokens == { <<"!">>, <<"[">>, <<"]">>, <<"(">>, <<")">>, <<"a">> }

DelimiterTokens == { <<"a">>, <<"*">>, <<"*", "*">>, <<"_">>, <<BACKTICK>> }

LINK_AB == <<"[", "a", "]", "(", "b", ")">>

LinkTokens == { LINK_AB, <<"!">>, <<"a">>, <<"[">>, <<"]">>, <<"(">>, <<")">> }

\* the documents explored
Document(v) ==
    \/ TokenString(v, BlockTokens, MaxBlockTokens)
    \/ TokenString(v, BracketTokens, MaxInlineTokens)
    \/ TokenString(v, LinkTokens, MaxLinkTokens)

-----------------------------------------------------------------------------
(* markdown_to_html_node as a state machine: one step per statement of its body *)

\* block_type before block_to_block_type has returned
NO_TYPE == "unset"

\* the variables of the calls that are not running
NoDocument ==
    /\ markdown = <<>>
    /\ blocks = <<>>
    /\ children = <<>>
    /\ root = None

NoText ==
    /\ text = <<>>
    /\ nodes = <<>>

NoBlock ==
    /\ block = <<>>
    /\ block_type = NO_TYPE

Init ==
    /\ Document(markdown)
    /\ blocks = <<>>
    /\ children = <<>>
    /\ root = None
    /\ pc = "start"
    /\ err = NoError
    /\ NoText
    /\ NoBlock

\* line 170
Segment ==
    /\ pc = "start"
    /\ blocks' = markdown_to_blocks(markdown)
    /\ pc' = "loop"
    /\ UNCHANGED <<markdown, children, root, err, text, nodes, block, block_type>>

\* AppendChild, inserting at the front
PrependChild(r) ==
    IF r.ok
    THEN /\ children' = <<r.val>> \o children
         /\ UNCHANGED <<pc, err>>
    ELSE /\ pc' = "raised"
         /\ err' = r.err
         /\ UNCHANGED children

\* children.append(r), or the ValueError r leaving the call
AppendChild(r) ==
    IF r.ok
    THEN /\ children' = Append(children, r.val)
         /\ UNCHANGED <<pc, err>>
    ELSE /\ pc' = "raised"
         /\ err' = r.err
         /\ UNCHANGED children

\* lines 173-187, one iteration
ConvertBlock ==
    /\ pc = "loop"
    /\ Len(children) < Len(blocks)
    /\ AppendChild(block_to_html_node(blocks[Len(children) + 1]))
    /\ UNCHANGED <<markdown, blocks, root, text, nodes, block, block_type>>

\* line 189
Return ==
    /\ pc = "loop"
    /\ Len(children) = Len(blocks)
    /\ root' = ParentNode(TAG_DIV, children)
    /\ pc' = "done"
    /\ UNCHANGED <<markdown, blocks, children, err, text, nodes, block, block_type>>

Next == Segment \/ ConvertBlock \/ Return

Spec == Init /\ [][Next]_vars

-----------------------------------------------------------------------------
(* text_to_textnodes as a state machine: one step per pass *)

\* the inline texts explored
InlineText(v) ==
    \/ TokenString(v, DelimiterTokens, MaxInlineTokens)
    \/ TokenString(v, BracketTokens, MaxInlineTokens)
    \/ TokenString(v, LinkTokens, MaxLinkTokens)

\* line 62
InitInline ==
    /\ InlineText(text)
    /\ nodes = <<TextNode(text, TT_TEXT, None)>>
    /\ pc = "bold"
    /\ err = NoError
    /\ NoDocument
    /\ NoBlock

\* nodes = r, then the pass at next_pc; or the ValueError r leaving the call
Assign(r, next_pc) ==
    /\ IF r.ok
       THEN /\ nodes' = r.val
            /\ pc' = next_pc
            /\ UNCHANGED err
       ELSE /\ pc' = "raised"
            /\ err' = r.err
            /\ UNCHANGED nodes
    /\ UNCHANGED <<markdown, blocks, children, root, text, block, block_type>>

\* line 63
BoldPass == pc = "bold" /\ Assign(bold_pass(nodes), "italic")

\* line 64
ItalicPass == pc = "italic" /\ Assign(italic_pass(nodes), "code")

\* line 65
CodePass == pc = "code" /\ Assign(code_pass(nodes), "image")

\* line 66
ImagePass == pc = "image" /\ Assign(split_nodes_image(nodes), "link")

\* lines 67-68
LinkPass == pc = "link" /\ Assign(split_nodes_link(nodes), "done")

NextInline == BoldPass \/ ItalicPass \/ CodePass \/ ImagePass \/ LinkPass

SpecInline == InitInline /\ [][NextInline]_vars

-----------------------------------------------------------------------------
(* split_nodes_link called on one Text span *)

InitLink ==
    /\ TokenString(text, LinkTokens, MaxLinkTokens)
    /\ nodes = <<TextNode(text, TT_TEXT, None)>>
    /\ pc = "link"
    /\ err = NoError
    /\ NoDocument
    /\ NoBlock

NextLink == LinkPass

SpecLink == InitLink /\ [][NextLink]_vars

-----------------------------------------------------------------------------
(* block_to_block_type called on one block *)

ClassifyTokens ==
    { <<"#">>, <<" ">>, SIX_HASHES, FENCE, <<BACKTICK>>, <<">">>, <<"-", " ">>,
      <<"1", ".", " ">>, <<"2", ".", " ">>, <<"3", ".", " ">>, <<"a">>, <<"\n">> }

InitClassify ==
    /\ TokenString(block, ClassifyTokens, MaxClassifyTokens)
    /\ block_type = NO_TYPE
    /\ pc = "classify"
    /\ err = NoError
    /\ NoDocument
    /\ NoText

Classify ==
    /\ pc = "classify"
    /\ block_type' = block_to_block_type(block)
    /\ pc' = "done"
    /\ UNCHANGED <<markdown, blocks, children, root, err, text, nodes, block>>

NextClassify == Classify

SpecClassify == InitClassify /\ [][NextClassify]_vars

-----------------------------------------------------------------------------
(* Notions the properties are stated with, defined apart from the code above *)

\* the number of occurrences of d in t, counted left to right without overlap,
\* from position i on
RECURSIVE CountFrom(_, _, _)
CountFrom(t, d, i) ==
    IF i + Len(d) - 1 > Len(t) THEN 0
    ELSE IF SubSeq(t, i, i + Len(d) - 1) = d THEN 1 + CountFrom(t, d, i + Len(d))
    ELSE CountFrom(t, d, i + 1)

\* the segments of t between the occurrences of d: the one begun at start, and
\* those after it, scanning from i
RECURSIVE SegmentsFrom(_, _, _, _)
SegmentsFrom(t, d, i, start) ==
    IF i + Len(d) - 1 > Len(t) THEN <<SubSeq(t, start, Len(t))>>
    ELSE IF SubSeq(t, i, i + Len(d) - 1) = d
         THEN <<SubSeq(t, start, i - 1)>> \o SegmentsFrom(t, d, i + Len(d), i + Len(d))
    ELSE SegmentsFrom(t, d, i + 1, start)

\* the positions of b where a line starts
LineStarts(b) == {1} \cup {i + 1 : i \in {j \in 1..Len(b) : b[j] = "\n"}}

\* the 1-based number of the line that starts at position i
LineNumber(b, i) == 1 + Cardinality({j \in 1..(i - 1) : b[j] = "\n"})

HasAt(b, i, x) == i + Len(x) - 1 <= Len(b) /\ SubSeq(b, i, i + Len(x) - 1) = x

EveryLineStartsWith(b, x) == \A i \in LineStarts(b) : HasAt(b, i, x)

IsHeading(b) == \E k \in 1..6 : HasAt(b, 1, [j \in 1..k |-> "#"] \o <<" ">>)

IsCode(b) == HasAt(b, 1, FENCE) /\ HasAt(b, Len(b) - 2, FENCE)

IsNumbered(b) ==
    \A i \in LineStarts(b) : HasAt(b, i, str_int(LineNumber(b, i)) \o <<".", " ">>)

\* every line starts with some one-digit number, a period and a space
LooksNumbered(b) ==
    \A i \in LineStarts(b) : \E n \in 1..9 : HasAt(b, i, <<DIGITS[n + 1], ".", " ">>)

FirstMatchingRule(b) ==
    IF IsHeading(b) THEN HEADING
    ELSE IF IsCode(b) THEN CODE
    ELSE IF EveryLineStartsWith(b, <<">">>) THEN QUOTE
    ELSE IF EveryLineStartsWith(b, <<"-", " ">>) THEN UNORDERED_LIST
    ELSE IF IsNumbered(b) THEN ORDERED_LIST
    ELSE PARAGRAPH

\* the tag the type of a block fixes
HeadingTag(b) ==
    <<"h", DIGITS[1 + CHOOSE k \in 1..6 : HasAt(b, 1, [j \in 1..k |-> "#"] \o <<" ">>)]>>

TagOfBlock(b) ==
    LET bt == block_to_block_type(b)
    IN  CASE bt = PARAGRAPH -> <<"p">>
          [] bt = HEADING -> HeadingTag(b)
          [] bt = CODE -> <<"p", "r", "e">>
          [] bt = QUOTE -> <<"b", "l", "o", "c", "k", "q", "u", "o", "t", "e">>
          [] bt = UNORDERED_LIST -> <<"u", "l">>
          [] bt = ORDERED_LIST -> <<"o", "l">>

\* t holds the syntax [..](..) of a link or, after "!", of an image
HasBracketSyntax(t) ==
    \E p \in 1..Len(t) : \E q \in (p + 1)..Len(t) : \E r \in (q + 2)..Len(t) :
        /\ t[p] = "[" /\ t[q] = "]" /\ t[q + 1] = "(" /\ t[r] = ")"
        /\ \A i \in (p + 1)..(q - 1) : t[i] \notin {"[", "]"}
        /\ \A i \in (q + 2)..(r - 1) : t[i] \notin {"(", ")"}

NoInlineMarker(t) ==
    /\ CountFrom(t, <<"*", "*">>, 1) = 0
    /\ \A i \in 1..Len(t) : t[i] \notin {"_", BACKTICK}
    /\ ~HasBracketSyntax(t)

\* the delimiter and the target type of the pass at a position of text_to_textnodes
IsDelimiterPass(p) == p \in {"bold", "italic", "code"}

PassDelimiter(p) ==
    CASE p = "bold" -> <<"*", "*">> [] p = "italic" -> <<"_">> [] p = "code" -> <<BACKTICK>>

PassType(p) ==
    CASE p = "bold" -> TT_BOLD [] p = "italic" -> TT_ITALIC [] p = "code" -> TT_CODE

NonEmptySpan(n) == n.text # <<>>

\* the non-empty segments of t in order, each typed by its index in the full split
TypedSegments(t, d, ty) ==
    LET segs == SegmentsFrom(t, d, 1, 1)
    IN  SelectSeq([i \in 1..Len(segs) |->
                      TextNode(segs[i], IF (i - 1) % 2 = 1 THEN ty ELSE TT_TEXT, None)],
                  NonEmptySpan)

\* what a delimiter pass makes of a span list in which every Text span is closed
PassOutput(ns, d, ty) ==
    flatten([k \in 1..Len(ns) |->
                IF ns[k].text_type = TT_TEXT THEN TypedSegments(ns[k].text, d, ty)
                ELSE <<ns[k]>>])

\* some Text span of ns holds d an odd number of times
UnclosedIn(ns, d) ==
    \E k \in 1..Len(ns) : ns[k].text_type = TT_TEXT /\ CountFrom(ns[k].text, d, 1) % 2 = 1

\* some delimiter pass of the tokenizer meets an unclosed span when given t
TextUnclosed(t) ==
    LET given == <<TextNode(t, TT_TEXT, None)>>
        after_bold == bold_pass(given).val
        after_italic == italic_pass(after_bold).val
    IN  \/ UnclosedIn(given, <<"*", "*">>)
        \/ /\ ~UnclosedIn(given, <<"*", "*">>)
           /\ \/ UnclosedIn(after_bold, <<"_">>)
              \/ /\ ~UnclosedIn(after_bold, <<"_">>)
                 /\ UnclosedIn(after_italic, <<BACKTICK>>)

\* the texts the assembler hands to the tokenizer for block b
BlockTexts(b) ==
    LET bt == block_to_block_type(b)
        lines == split(b, <<"\n">>)
    IN  CASE bt = PARAGRAPH -> {join(<<" ">>, lines)}
          [] bt = HEADING -> {py_slice(b, heading_level(b) + 1, Len(b))}
          [] bt = CODE -> {}
          [] bt = QUOTE -> {quote_content(lines)}
          [] bt = UNORDERED_LIST -> {py_slice(lines[k], 2, Len(lines[k])) : k \in 1..Len(lines)}
          [] bt = ORDERED_LIST ->
                {split_max1(lines[k], <<".", " ">>)[2] : k \in 1..Len(lines)}

BlockUnclosed(b) == \E t \in BlockTexts(b) : TextUnclosed(t)

\* the length of the part of the text a span of the link pass was cut from
SourceLen(n) == IF n.text_type = TT_LINK THEN Len(n.text) + Len(n.url) + 4 ELSE Len(n.text)

\* the position in the text of the part span k was cut from
RECURSIVE StartOf(_, _)
StartOf(ns, k) == IF k = 1 THEN 1 ELSE StartOf(ns, k - 1) + SourceLen(ns[k - 1])

\* a quote line without its one leading ">" and at most one space after it
QuoteLineLessMarker(line) ==
    IF Len(line) >= 2 /\ line[2] = " " THEN SubSeq(line, 3, Len(line))
    ELSE SubSeq(line, 2, Len(line))

QuoteTextLessMarkers(b) ==
    LET lines == SegmentsFrom(b, <<"\n">>, 1, 1)
    IN  join(<<"\n">>, [k \in 1..Len(lines) |-> QuoteLineLessMarker(lines[k])])

-----------------------------------------------------------------------------
(* Properties *)

\* C1: when markdown_to_html_node returns, the root is a div whose children are
\* one subtree per block of markdown_to_blocks, in block order, the i-th child
\* tagged as the type of the i-th block fixes (p, h1..h6, pre, blockquote, ul, ol).
C1_RootIsDivOfBlockSubtrees ==
    pc = "done" =>
        LET bs == markdown_to_blocks(markdown)
        IN  /\ root.tag = <<"d", "i", "v">>
            /\ Len(root.children) = Len(bs)
            /\ \A i \in 1..Len(bs) : root.children[i].tag = TagOfBlock(bs[i])

\* C1 witness: a document of a heading followed by a paragraph has been converted.
C1_Witness ==
    /\ pc = "done"
    /\ Len(root.children) = 2
    /\ root.children[1].tag = <<"h", "1">>
    /\ root.children[2].tag = <<"p">>

\* C2 (as claimed): every block markdown_to_blocks returns is non-empty and has
\* no leading or trailing whitespace.
C2_BlocksNonEmptyAndTrimmed ==
    \A i \in 1..Len(blocks) :
        /\ blocks[i] # <<>>
        /\ blocks[i][1] \notin WHITESPACE
        /\ blocks[i][Len(blocks[i])] \notin WHITESPACE

\* C3: block_to_block_type is total and returns the type of the first matching
\* rule in the order Heading, Code, Quote, UnorderedList, OrderedList, Paragraph;
\* a block whose every line starts with ">" is Quote, and a block of numbered
\* lines whose numbering does not run 1, 2, 3, ... is Paragraph.
C3_FirstMatchingRule ==
    pc = "done" =>
        /\ block_type \in BlockType
        /\ block_type = FirstMatchingRule(block)
        /\ EveryLineStartsWith(block, <<">">>) => block_type = QUOTE
        /\ (LooksNumbered(block) /\ ~IsNumbered(block)) => block_type = PARAGRAPH

\* C3 witness: a block of numbered lines that skips a number has been classified.
C3_Witness ==
    /\ pc = "done"
    /\ block = <<"1", ".", " ", "\n", "3", ".", " ">>
    /\ block_type = PARAGRAPH

\* C4 (as claimed): for a text with no inline marker, the empty string included,
\* text_to_textnodes returns exactly one Text span whose content is the text.
C4_OneTextSpanForUnmarkedText ==
    (pc = "done" /\ NoInlineMarker(text)) => nodes = <<TextNode(text, TT_TEXT, None)>>

\* C4 (amended): for a non-empty text with no inline marker text_to_textnodes
\* returns exactly one Text span whose content is the text; for the empty string
\* it returns no span; in neither case does it raise.
C4_OneTextSpanForNonEmptyUnmarkedText ==
    NoInlineMarker(text) =>
        /\ pc # "raised"
        /\ pc = "done" =>
               nodes = IF text = <<>> THEN <<>> ELSE <<TextNode(text, TT_TEXT, None)>>

\* C4 witness: a text of brackets and stars that form no marker has been tokenized.
C4_Witness ==
    /\ pc = "done"
    /\ NoInlineMarker(text)
    /\ Len(text) >= 3
    /\ \E i \in 1..Len(text) : text[i] \in {"[", "*", "!"}

\* C5: a delimiter pass that does not raise replaces every Text span by its
\* non-empty segments in order, a segment at an odd index of the full split
\* having the pass's type and one at an even index the type Text, and leaves the
\* other spans in place; no span it emits is empty.
C5_SegmentsTypedByIndex ==
    [][(IsDelimiterPass(pc) /\ pc' # pc /\ pc' # "raised") =>
          /\ nodes' = PassOutput(nodes, PassDelimiter(pc), PassType(pc))
          /\ \A k \in 1..Len(nodes') : nodes'[k].text # <<>>]_vars

\* C5 witness: the bold pass has dropped the empty segment before a leading "**",
\* so that the first span emitted is the Bold one.
C5_Witness ==
    /\ pc = "italic"
    /\ startswith(text, <<"*", "*">>)
    /\ Len(nodes) >= 2
    /\ nodes[1].text_type = TT_BOLD
    /\ nodes[2].text_type = TT_TEXT

\* C6: a block is converted exactly when no delimiter pass over its texts meets a
\* Text span holding the delimiter an odd number of times; when one does, the
\* call ends in the unclosed-delimiter error and returns no root node.
C6_UnclosedDelimiterEndsTheCall ==
    /\ \A i \in 1..Len(children) : ~BlockUnclosed(blocks[i])
    /\ pc = "raised" =>
           /\ BlockUnclosed(blocks[Len(children) + 1])
           /\ err = ERR_DELIMITER
           /\ root = None
    /\ pc = "done" => \A i \in 1..Len(blocks) : ~BlockUnclosed(blocks[i])

\* C6 witness: the call has ended in the error after a first block was converted.
C6_Witness ==
    /\ pc = "raised"
    /\ Len(children) >= 1

\* C7 (as claimed): no Link span the link pass emits is cut from an occurrence
\* of [text](url) that "!" immediately precedes.
C7_NoLinkCutFromAnImage ==
    pc = "done" =>
        \A k \in 1..Len(nodes) :
            nodes[k].text_type = TT_LINK =>
                \/ StartOf(nodes, k) = 1
                \/ text[StartOf(nodes, k) - 1] # "!"

\* C8 (as claimed): the literal text of the code leaf of a Code block is the
\* interior of the block: three backticks + interior + three backticks = block.
C8_CodeLeafIsTheInterior ==
    \A i \in 1..Len(children) :
        block_to_block_type(blocks[i]) = CODE =>
            FENCE \o children[i].children[1].value \o FENCE = blocks[i]

\* C9 (as claimed): the text tokenized for a Quote block is its lines, each
\* without its one leading ">" and at most one space after it, joined by newline.
C9_QuoteLosesOneMarkerPerLine ==
    \A i \in 1..Len(children) :
        block_to_block_type(blocks[i]) = QUOTE =>
            children[i].children = text_to_children(QuoteTextLessMarkers(blocks[i])).val

\* C10: the only error markdown_to_html_node ends in is the unclosed-delimiter
\* error of a delimiter pass.
C10_OnlyUnclosedDelimiterFails ==
    pc = "raised" => err = ERR_DELIMITER

\* C10 witness: the call has ended in an error inside an ordered list, after the
\* numeric prefix of the item was stripped.
C10_Witness ==
    /\ pc = "raised"
    /\ block_to_block_type(blocks[Len(children) + 1]) = ORDERED_LIST

====
